---- MODULE Spec2Model ----
(***************************************************************************)
(* The three renaming tools of Parssing_data: RenameFasta.py (FASTA header *)
(* renamer), RenameTable.py (table value renamer) and RenamefromTable.py   *)
(* (line token renamer).  One run of one tool is one behaviour: the tool   *)
(* and its command-line arguments and files are fixed in the initial state *)
(* and the actions are the steps of the script, in program order.          *)
(*                                                                         *)
(* Representation of Python values.  A value is a pair <<type, payload>>:  *)
(*   <<"str", s>>        a str read from the equivalence table             *)
(*   <<"int", s>>        an integer that pandas inferred from the digits s *)
(*   <<"float", "nan">>  pandas' NaN for an empty field                    *)
(*   <<"list", items>>   a list of str (items is a sequence of strings)    *)
(*   <<"text", pieces>>  a str of a table cell, kept as the pieces that    *)
(*                       single spaces separate (its text is the pieces    *)
(*                       joined by " ")                                    *)
(* The tokens of the inputs hold no whitespace and are none of the markers *)
(* pandas reads as a missing value ("NA", "nan", ...); the rows of a table *)
(* are its data rows (no comment lines, no blank lines).                   *)
(***************************************************************************)
EXTENDS Integers, Sequences, FiniteSets, TLC

VARIABLES
    tool,                \* "fasta" | "table" | "line": the script that runs
    table_file,          \* args.table: the rows of the equivalence file, each a sequence of fields
    input_file,          \* args.file: FASTA records | table rows of cells | lines of characters
    args_column,         \* args.column: <<>> for None, <<c>> for -c c
    args_output,         \* args.output: TRUE when -o names a file, FALSE for standard output
    equivalences_table,  \* the DataFrame read from args.table
    equivalences_dict,   \* the dictionary built from it
    records,             \* RenameFasta.py: the list rename_fasta_headers builds
    file_df,             \* RenameTable.py: the DataFrame of the file to convert
    substituted_df,      \* RenameTable.py: the DataFrame that is written
    lineno,              \* position of the loop over records / lines (1-based, next to handle)
    out,                 \* the lines written to the output sink so far
    pc,                  \* the step of the script
    exit_status,         \* "running" | "0" | the uncaught exception that ended the run
    broken_pipe          \* TRUE once a write raised BrokenPipeError

vars == <<tool, table_file, input_file, args_column, args_output, equivalences_table,
          equivalences_dict, records, file_df, substituted_df, lineno, out, pc,
          exit_status, broken_pipe>>

---------------------------------------------------------------------------
(* Bounds and input alphabets *)

MaxRows == 2
MaxItems == 2

Keys == {"a", "7"}
Values == {"b", "5"}
TableWidths == {1, 2, 3}
Digits == {"0", "1", "2", "3", "4", "5", "6", "7", "8", "9"}
Whitespace == {" ", "\t", "\n"}

SeqsUpTo(S, lo, hi) == UNION {[1..n -> S] : n \in lo..hi}

TableRowsOfWidth(w) ==
    IF w = 1 THEN {<<k>> : k \in Keys}
    ELSE IF w = 2 THEN {<<k, v>> : k \in Keys, v \in Values}
    ELSE {<<k, v, "z">> : k \in Keys, v \in Values}

TableFiles == UNION {SeqsUpTo(TableRowsOfWidth(w), 1, MaxRows) : w \in TableWidths}

FastaTitles == {<<"a", "desc">>, <<"7">>, <<"a7", "desc">>}
FastaSeqs == {"ACGT", "TTTT"}
FastaFiles == SeqsUpTo([title : FastaTitles, seq : FastaSeqs], 0, MaxItems)

InputLines ==
    { <<" ", " ", "a", " ", " ", " ", "x", " ", " ", "\n">>,
      <<"7", "\t", "a", "\n">>,
      <<"a", "7", "\n">>,
      <<"\n">> }
LineFiles == SeqsUpTo(InputLines, 0, MaxItems)

DfWidths == {1, 2}
DfRowsOfWidth(w) ==
    IF w = 1 THEN { << <<"a", "7">> >>, << <<"x">> >> }
    ELSE { << <<"a", "x">>, <<"x">> >>,
           << <<"7">>, <<"a">> >>,
           << <<"x">>, <<>> >> }
DfFiles(w) == SeqsUpTo(DfRowsOfWidth(w), 1, MaxItems)

---------------------------------------------------------------------------
(* Helpers on sequences and strings *)

Range(s) == {s[i] : i \in DOMAIN s}

RECURSIVE Join(_, _)
Join(strs, sep) ==
    IF strs = <<>> THEN ""
    ELSE IF Len(strs) = 1 THEN strs[1]
    ELSE strs[1] \o sep \o Join(Tail(strs), sep)

NaN == <<"float", "nan">>
PyStr(s) == <<"str", s>>

---------------------------------------------------------------------------
(* pandas.read_csv(sep='\t', header=None) on the equivalence file *)

Column(rows, j) == [i \in DOMAIN rows |-> rows[i][j]]

\* One column as pandas types it: with dtype=str every field stays a str; without it a
\* column whose fields are all digits becomes int64, any other column stays str.
ParseColumn(fields, dtype_str) ==
    IF ~dtype_str /\ \A i \in DOMAIN fields : fields[i] \in Digits
    THEN [i \in DOMAIN fields |-> <<"int", fields[i]>>]
    ELSE [i \in DOMAIN fields |-> PyStr(fields[i])]

ReadCsv(rows, dtype_str) ==
    LET w == Len(rows[1])
        cols == [j \in 1..w |-> ParseColumn(Column(rows, j), dtype_str)]
    IN [i \in DOMAIN rows |-> [j \in 1..w |-> cols[j][i]]]

Width(df) == Len(df[1])

\* dict(zip(table_df.iloc[:, 0], table_df.iloc[:, 1])): the rows are inserted in order,
\* an insertion under a key already present replaces its value.
RECURSIVE DictOfPairs(_, _)
DictOfPairs(df, d) ==
    IF df = <<>> THEN d
    ELSE DictOfPairs(Tail(df), (df[1][1] :> df[1][2]) @@ d)

RECURSIVE DictOfPairsKeepFirst(_, _)
DictOfPairsKeepFirst(df, d) ==
    IF df = <<>> THEN d
    ELSE DictOfPairsKeepFirst(Tail(df), d @@ (df[1][1] :> df[1][2]))

make_dict_from_table_first_wins(table_df) == DictOfPairsKeepFirst(table_df, <<>>)
make_dict_from_table(table_df) == DictOfPairs(table_df, <<>>)

---------------------------------------------------------------------------
(* Initial state: the arguments are parsed, nothing is read yet *)

Columns(w) == {<<>>} \cup {<<c>> : c \in 0..(w + 1)}

InitCommon ==
    /\ table_file \in TableFiles
    /\ args_output \in BOOLEAN
    /\ equivalences_table = <<>>
    /\ equivalences_dict = <<>>
    /\ records = <<>>
    /\ file_df = <<>>
    /\ substituted_df = <<>>
    /\ lineno = 1
    /\ out = <<>>
    /\ pc = "start"
    /\ exit_status = "running"
    /\ broken_pipe = FALSE

Init ==
    /\ InitCommon
    /\ \/ tool = "fasta" /\ input_file \in FastaFiles /\ args_column = <<>>
       \/ tool = "line" /\ input_file \in LineFiles /\ args_column = <<>>
       \/ /\ tool = "table"
          /\ \E w \in DfWidths : input_file \in DfFiles(w) /\ args_column \in Columns(w)

\* An uncaught exception ends the run; nothing more is written.
Raise(exception) ==
    /\ pc' = "exit"
    /\ exit_status' = exception

\* `except BrokenPipeError: pass`: the exit status of a run whose write raised
\* BrokenPipeError inside the try block; the script then runs off its end.
ExceptBrokenPipeError_reraise == "BrokenPipeError"
ExceptBrokenPipeError == "0"

\* A write to the output: to a file it succeeds; to standard output it succeeds, or the
\* reader has closed the pipe and it raises BrokenPipeError, which the handler catches.
PipeMayBreak == ~args_output

---------------------------------------------------------------------------
(* RenameFasta.py *)

\* open_table_file's check of the column count
TableHasTwoColumns_unchecked(table) == TRUE
TableHasTwoColumns(table) == Width(table) = 2

\* line 142: equivalences_table = open_table_file(args.table)
FastaOpenTable ==
    /\ tool = "fasta" /\ pc = "start"
    /\ LET table == ReadCsv(table_file, TRUE)
       IN IF TableHasTwoColumns(table)
          THEN /\ equivalences_table' = table
               /\ pc' = "dict"
               /\ UNCHANGED exit_status
          ELSE /\ Raise("ValueError")
               /\ UNCHANGED equivalences_table
    /\ UNCHANGED <<tool, table_file, input_file, args_column, args_output,
                   equivalences_dict, records, file_df, substituted_df, lineno, out,
                   broken_pipe>>

\* line 143: equivalences_dict = make_dict_from_table(equivalences_table)
FastaMakeDict ==
    /\ tool = "fasta" /\ pc = "dict"
    /\ IF Width(equivalences_table) >= 2
       THEN /\ equivalences_dict' = make_dict_from_table(equivalences_table)
            /\ pc' = "rename"
            /\ UNCHANGED exit_status
       ELSE /\ Raise("IndexError")
            /\ UNCHANGED equivalences_dict
    /\ UNCHANGED <<tool, table_file, input_file, args_column, args_output,
                   equivalences_table, records, file_df, substituted_df, lineno, out,
                   broken_pipe>>

\* SeqIO.parse(fasta_input, "fasta"): the identifier is the first word of the title
\* line, the description is the whole title line, the sequence is the payload.
ParseRecord(entry) ==
    [id |-> entry.title[1], description |-> entry.title, seq |-> entry.seq]

\* The body of the loop of rename_fasta_headers (lines 130-133)
RenameRecord_id_only(record, dict) ==
    IF PyStr(record.id) \in DOMAIN dict
    THEN [record EXCEPT !.id = dict[PyStr(record.id)][2]]
    ELSE record
RenameRecord(record, dict) ==
    IF PyStr(record.id) \in DOMAIN dict
    THEN LET new_id == dict[PyStr(record.id)][2]
         IN [record EXCEPT !.id = new_id, !.description = <<new_id>>]
    ELSE record

\* One iteration of the loop of rename_fasta_headers (lines 129-134)
FastaRenameNext ==
    /\ tool = "fasta" /\ pc = "rename"
    /\ lineno <= Len(input_file)
    /\ records' = Append(records, RenameRecord(ParseRecord(input_file[lineno]),
                                               equivalences_dict))
    /\ lineno' = lineno + 1
    /\ UNCHANGED <<tool, table_file, input_file, args_column, args_output,
                   equivalences_table, equivalences_dict, file_df, substituted_df, out,
                   pc, exit_status, broken_pipe>>

\* The parser is exhausted: rename_fasta_headers returns the list (line 135)
FastaRenameReturn ==
    /\ tool = "fasta" /\ pc = "rename"
    /\ lineno > Len(input_file)
    /\ pc' = "write"
    /\ lineno' = 1
    /\ UNCHANGED <<tool, table_file, input_file, args_column, args_output,
                   equivalences_table, equivalences_dict, records, file_df,
                   substituted_df, out, exit_status, broken_pipe>>

\* SeqIO.write's title line: the description when it starts with the identifier,
\* otherwise the identifier followed by the description.
FastaTitle(record) ==
    IF record.description # <<>> /\ record.description[1] = record.id
    THEN Join(record.description, " ")
    ELSE IF record.description # <<>>
         THEN record.id \o " " \o Join(record.description, " ")
         ELSE record.id

FastaLines(record) == << ">" \o FastaTitle(record), record.seq >>

\* SeqIO.write(renamed_records, ...) writes one record after the other (lines 149-155)
FastaWriteNext ==
    /\ tool = "fasta" /\ pc = "write"
    /\ lineno <= Len(records)
    /\ \/ /\ out' = out \o FastaLines(records[lineno])
          /\ lineno' = lineno + 1
          /\ UNCHANGED <<pc, exit_status, broken_pipe>>
       \/ /\ PipeMayBreak
          /\ broken_pipe' = TRUE
          /\ pc' = "exit"
          /\ exit_status' = ExceptBrokenPipeError
          /\ UNCHANGED <<out, lineno>>
    /\ UNCHANGED <<tool, table_file, input_file, args_column, args_output,
                   equivalences_table, equivalences_dict, records, file_df,
                   substituted_df>>

\* Every record is written: the script ends
FastaWriteDone ==
    /\ tool = "fasta" /\ pc = "write"
    /\ lineno > Len(records)
    /\ pc' = "exit"
    /\ exit_status' = "0"
    /\ UNCHANGED <<tool, table_file, input_file, args_column, args_output,
                   equivalences_table, equivalences_dict, records, file_df,
                   substituted_df, lineno, out, broken_pipe>>

---------------------------------------------------------------------------
(* RenameTable.py *)

\* open_table_files on the file to convert (dtype=str): an empty field is NaN, any
\* other field is a str.
ReadCell(pieces) == IF pieces = <<>> THEN NaN ELSE <<"text", pieces>>
ReadTable(rows) == [i \in DOMAIN rows |-> [j \in DOMAIN rows[i] |-> ReadCell(rows[i][j])]]

\* line 166: lambda x: x.split(' ') if isinstance(x, str) else x
SplitCell(x) == IF x[1] = "text" THEN <<"list", x[2]>> ELSE x

SplitCells(df) == [i \in DOMAIN df |-> [j \in DOMAIN df[i] |-> SplitCell(df[i][j])]]

\* str(value) of a cell that is not a list: NaN gives "nan"
StrOfScalar(value) == IF value[1] = "float" THEN "nan" ELSE Join(value[2], " ")

\* substitutions_dict.get(str(item), str(item)), on the text of str(item)
DictGet(dict, text) ==
    IF PyStr(text) \in DOMAIN dict THEN dict[PyStr(text)][2] ELSE text

\* lines 164-166: both files are read, the cells of the file to convert are split
TableOpenFiles ==
    /\ tool = "table" /\ pc = "start"
    /\ equivalences_table' = ReadCsv(table_file, TRUE)
    /\ file_df' = SplitCells(ReadTable(input_file))
    /\ pc' = "dict"
    /\ UNCHANGED <<tool, table_file, input_file, args_column, args_output,
                   equivalences_dict, records, substituted_df, lineno, out,
                   exit_status, broken_pipe>>

\* line 169: equivalences_dict = make_dict_from_table(equivalences_table)
TableMakeDict ==
    /\ tool = "table" /\ pc = "dict"
    /\ IF Width(equivalences_table) >= 2
       THEN /\ equivalences_dict' = make_dict_from_table(equivalences_table)
            /\ pc' = "substitute"
            /\ UNCHANGED exit_status
       ELSE /\ Raise("IndexError")
            /\ UNCHANGED equivalences_dict
    /\ UNCHANGED <<tool, table_file, input_file, args_column, args_output,
                   equivalences_table, records, file_df, substituted_df, lineno, out,
                   broken_pipe>>

\* substitute_value of substitute_column_values (lines 125-131)
substitute_value(value, dict) ==
    IF value[1] = "list"
    THEN <<"list", [k \in DOMAIN value[2] |-> DictGet(dict, value[2][k])]>>
    ELSE <<"text", <<DictGet(dict, StrOfScalar(value))>> >>

\* substitute_in_cell of substitute_all_values (lines 149-155)
substitute_in_cell_hits_only(cell, dict) ==
    IF cell[1] = "list"
    THEN <<"text", SelectSeq([k \in DOMAIN cell[2] |-> DictGet(dict, cell[2][k])],
                             LAMBDA item : item \in {v[2] : v \in Range(dict)})>>
    ELSE <<"text", <<DictGet(dict, StrOfScalar(cell))>> >>
substitute_in_cell(cell, dict) ==
    IF cell[1] = "list"
    THEN <<"text", [k \in DOMAIN cell[2] |-> DictGet(dict, cell[2][k])]>>
    ELSE <<"text", <<DictGet(dict, StrOfScalar(cell))>> >>

\* df.iloc[:, i]: a position from the left when i >= 0, from the right when i < 0;
\* IndexError outside -width .. width-1.  The result is the 1-based column.
IlocInBounds(df, i) == -Width(df) <= i /\ i < Width(df)
IlocColumn(df, i) == IF i >= 0 THEN i + 1 ELSE Width(df) + i + 1

\* substitute_column_values (line 133): the column is replaced in place
substitute_column_values(df, dict, column_index) ==
    [i \in DOMAIN df |->
        [j \in DOMAIN df[i] |->
            IF j = IlocColumn(df, column_index)
            THEN substitute_value(df[i][j], dict)
            ELSE df[i][j]]]

\* substitute_all_values (line 157)
substitute_all_values(df, dict) ==
    [i \in DOMAIN df |-> [j \in DOMAIN df[i] |-> substitute_in_cell(df[i][j], dict)]]

\* lines 172-176
TableSubstitute ==
    /\ tool = "table" /\ pc = "substitute"
    /\ IF args_column # <<>>
       THEN LET col_index == args_column[1] - 1
            IN IF IlocInBounds(file_df, col_index)
               THEN LET df == substitute_column_values(file_df, equivalences_dict,
                                                       col_index)
                    IN /\ file_df' = df
                       /\ substituted_df' = df
                       /\ pc' = "write"
                       /\ UNCHANGED exit_status
               ELSE /\ Raise("IndexError")
                    /\ UNCHANGED <<file_df, substituted_df>>
       ELSE /\ substituted_df' = substitute_all_values(file_df, equivalences_dict)
            /\ pc' = "write"
            /\ UNCHANGED <<file_df, exit_status>>
    /\ UNCHANGED <<tool, table_file, input_file, args_column, args_output,
                   equivalences_table, equivalences_dict, records, lineno, out,
                   broken_pipe>>

\* repr of a list of str, as str(list) gives it
PyRepr(items) ==
    "[" \o Join([k \in DOMAIN items |-> "'" \o items[k] \o "'"], ", ") \o "]"

\* DataFrame.to_csv's text of one cell: str(value), and the empty string for NaN
CsvField(value) ==
    IF value[1] = "float" THEN ""
    ELSE IF value[1] = "list" THEN PyRepr(value[2])
    ELSE Join(value[2], " ")

\* to_csv(sep='\t', index=False, header=False): one line per row
to_csv(df) == [i \in DOMAIN df |-> Join([j \in DOMAIN df[i] |-> CsvField(df[i][j])], "\t")]

\* lines 179-186: to_csv into the file, or print(final_file), which ends the text with
\* one more newline (an empty last line)
TableWrite ==
    /\ tool = "table" /\ pc = "write"
    /\ \/ /\ out' = IF args_output THEN to_csv(substituted_df)
                    ELSE Append(to_csv(substituted_df), "")
          /\ exit_status' = "0"
          /\ UNCHANGED broken_pipe
       \/ /\ PipeMayBreak
          /\ broken_pipe' = TRUE
          /\ exit_status' = ExceptBrokenPipeError
          /\ UNCHANGED out
    /\ pc' = "exit"
    /\ UNCHANGED <<tool, table_file, input_file, args_column, args_output,
                   equivalences_table, equivalences_dict, records, file_df,
                   substituted_df, lineno>>

---------------------------------------------------------------------------
(* RenamefromTable.py *)

\* lines 98-99: the table is read without dtype=str and the dictionary is built
LineLoadTable ==
    /\ tool = "line" /\ pc = "start"
    /\ LET table == ReadCsv(table_file, FALSE)
       IN /\ equivalences_table' = table
          /\ IF Width(table) >= 2
             THEN /\ equivalences_dict' = make_dict_from_table(table)
                  /\ pc' = "lines"
                  /\ UNCHANGED exit_status
             ELSE /\ Raise("IndexError")
                  /\ UNCHANGED equivalences_dict
    /\ UNCHANGED <<tool, table_file, input_file, args_column, args_output, records,
                   file_df, substituted_df, lineno, out, broken_pipe>>

\* str.split(): the maximal runs of characters that are not whitespace
RECURSIVE SplitFrom(_, _, _)
SplitFrom(chars, word, parts) ==
    IF chars = <<>> THEN (IF word = "" THEN parts ELSE Append(parts, word))
    ELSE IF chars[1] \in Whitespace
         THEN SplitFrom(Tail(chars), "", IF word = "" THEN parts ELSE Append(parts, word))
         ELSE SplitFrom(Tail(chars), word \o chars[1], parts)

\* str.strip(): whitespace is dropped at both ends
RECURSIVE LStrip(_)
LStrip(chars) ==
    IF chars # <<>> /\ chars[1] \in Whitespace THEN LStrip(Tail(chars)) ELSE chars
RECURSIVE RStrip(_)
RStrip(chars) ==
    IF chars # <<>> /\ chars[Len(chars)] \in Whitespace
    THEN RStrip(SubSeq(chars, 1, Len(chars) - 1))
    ELSE chars
Strip(chars) == RStrip(LStrip(chars))

Split(chars) == SplitFrom(chars, "", <<>>)

\* replace_names, lines 80-86: the list new_line, of dictionary values and parts
NewLine(line, equivalences) ==
    LET parts == Split(line)
    IN [k \in DOMAIN parts |->
          IF PyStr(parts[k]) \in DOMAIN equivalences
          THEN equivalences[PyStr(parts[k])]
          ELSE PyStr(parts[k])]

\* ' '.join(new_line) raises TypeError when an item is not a str (line 87)
JoinRaises(new_line) == \E k \in DOMAIN new_line : new_line[k][1] # "str"

replace_names(line, equivalences) ==
    LET new_line == NewLine(line, equivalences)
    IN Join([k \in DOMAIN new_line |-> new_line[k][2]], " ")

\* One iteration of the loop over the lines of the file (lines 105-107, 110-112)
LineNext ==
    /\ tool = "line" /\ pc = "lines"
    /\ lineno <= Len(input_file)
    /\ LET line == Strip(input_file[lineno])
       IN IF JoinRaises(NewLine(line, equivalences_dict))
          THEN /\ Raise("TypeError")
               /\ UNCHANGED <<out, lineno, broken_pipe>>
          ELSE \/ /\ out' = Append(out, replace_names(line, equivalences_dict))
                  /\ lineno' = lineno + 1
                  /\ UNCHANGED <<pc, exit_status, broken_pipe>>
               \/ /\ PipeMayBreak
                  /\ broken_pipe' = TRUE
                  /\ pc' = "exit"
                  /\ exit_status' = ExceptBrokenPipeError
                  /\ UNCHANGED <<out, lineno>>
    /\ UNCHANGED <<tool, table_file, input_file, args_column, args_output,
                   equivalences_table, equivalences_dict, records, file_df,
                   substituted_df>>

\* The file is exhausted: main returns
LineDone ==
    /\ tool = "line" /\ pc = "lines"
    /\ lineno > Len(input_file)
    /\ pc' = "exit"
    /\ exit_status' = "0"
    /\ UNCHANGED <<tool, table_file, input_file, args_column, args_output,
                   equivalences_table, equivalences_dict, records, file_df,
                   substituted_df, lineno, out, broken_pipe>>

---------------------------------------------------------------------------

Next ==
    \/ FastaOpenTable
    \/ FastaMakeDict
    \/ FastaRenameNext
    \/ FastaRenameReturn
    \/ FastaWriteNext
    \/ FastaWriteDone
    \/ TableOpenFiles
    \/ TableMakeDict
    \/ TableSubstitute
    \/ TableWrite
    \/ LineLoadTable
    \/ LineNext
    \/ LineDone

Spec == Init /\ [][Next]_vars

---------------------------------------------------------------------------
(* What the claims speak of, in terms of the files as written: the equivalence file *)
(* maps the exact string of column 1 of a row to the string of column 2 of the last *)
(* row that has it.                                                                 *)

IsKey(text) == \E i \in DOMAIN table_file : table_file[i][1] = text
LastRowOf(text) ==
    CHOOSE i \in DOMAIN table_file :
        /\ table_file[i][1] = text
        /\ \A j \in DOMAIN table_file : j > i => table_file[j][1] # text
Mapped(text) == IF IsKey(text) THEN table_file[LastRowOf(text)][2] ELSE text
MappedAll(texts) == [k \in DOMAIN texts |-> Mapped(texts[k])]

TableIsUsable == Len(table_file[1]) >= 2
Finished == pc = "exit" /\ exit_status = "0" /\ ~broken_pipe

\* The table rows a finished run of RenameTable.py wrote: print ends the text with one
\* more newline, which is no row.
EmittedRows == IF args_output THEN out ELSE SubSeq(out, 1, Len(out) - 1)

InputWidth == Len(input_file[1])
ColumnGiven == tool = "table" /\ args_column # <<>>
ColumnValid == ColumnGiven /\ 1 <= args_column[1] /\ args_column[1] <= InputWidth
AfterSubstitute == tool = "table" /\ TableIsUsable /\ pc \in {"write", "exit"}

\* The cell of the file to convert as line 166 leaves it
SplitInput(i, j) == SplitCell(ReadCell(input_file[i][j]))

\* A cell's text in the output the claims describe: its sub-tokens joined by one space
CellText(pieces) == Join(pieces, " ")

---------------------------------------------------------------------------
(* C1: with -c c, c = 0 or c > width ends the run in an out-of-range error with no  *)
(* column substituted; for 1 <= c <= width column c, and only column c, is          *)
(* substituted.                                                                     *)
C1_ColumnBoundsChecked ==
    (AfterSubstitute /\ ColumnGiven) =>
        IF ColumnValid
        THEN /\ Len(substituted_df) = Len(input_file)
             /\ \A i \in DOMAIN input_file : \A j \in DOMAIN input_file[i] :
                   IF j = args_column[1] /\ input_file[i][j] # <<>>
                   THEN substituted_df[i][j] = <<"list", MappedAll(input_file[i][j])>>
                   ELSE j # args_column[1] => substituted_df[i][j] = SplitInput(i, j)
        ELSE /\ exit_status = "IndexError"
             /\ substituted_df = <<>>
             /\ \A i \in DOMAIN input_file : \A j \in DOMAIN input_file[i] :
                   file_df[i][j] = SplitInput(i, j)

(* C2: with one valid column selected, each emitted row is the tab-join of its      *)
(* cells, each cell its sub-tokens joined by one space, the keys of the target      *)
(* column replaced and every other cell as in the input.                            *)
C2_ColumnModeRows ==
    (AfterSubstitute /\ ColumnValid /\ Finished) =>
        /\ Len(EmittedRows) = Len(input_file)
        /\ \A i \in DOMAIN input_file :
              EmittedRows[i] =
                  Join([j \in DOMAIN input_file[i] |->
                           IF j = args_column[1]
                           THEN CellText(MappedAll(input_file[i][j]))
                           ELSE CellText(input_file[i][j])], "\t")

(* C3: the substituted table has the rows of the input, in order, each with as many *)
(* cells; a cell keeps the number and order of its sub-tokens, each one either kept *)
(* or replaced by its mapped value; a finished run emits one row per input row.     *)
Pieces(value) == IF value[1] = "float" THEN <<>> ELSE value[2]
C3_StructurePreserved ==
    (AfterSubstitute /\ (~ColumnGiven \/ ColumnValid)) =>
        /\ Len(substituted_df) = Len(input_file)
        /\ \A i \in DOMAIN input_file :
              /\ Len(substituted_df[i]) = Len(input_file[i])
              /\ \A j \in DOMAIN input_file[i] :
                    input_file[i][j] # <<>> =>
                       /\ Len(Pieces(substituted_df[i][j])) = Len(input_file[i][j])
                       /\ \A k \in DOMAIN input_file[i][j] :
                             Pieces(substituted_df[i][j])[k]
                                 \in {input_file[i][j][k], Mapped(input_file[i][j][k])}
        /\ Finished => Len(EmittedRows) = Len(input_file)

C3_Witness ==
    /\ tool = "table" /\ Finished /\ ~ColumnGiven
    /\ Len(input_file) = 2 /\ InputWidth = 2
    /\ input_file[1][1] = <<"a", "x">>
    /\ substituted_df[1][1] = <<"text", <<"b", "x">> >>
    /\ input_file[2][1] = <<"7">>

(* C4: every occurrence of a key of the equivalence file (the exact string of its   *)
(* column 1) as a FASTA identifier, as a sub-token of the selected column or of any *)
(* column, or as a token of a line, carries the mapped value in the output.         *)
C4_EveryOccurrenceReplaced ==
    (TableIsUsable /\ Finished) =>
        /\ tool = "fasta" =>
              \A i \in DOMAIN input_file :
                 IsKey(input_file[i].title[1]) =>
                    /\ records[i].id = Mapped(input_file[i].title[1])
                    /\ out[2 * i - 1] = ">" \o Mapped(input_file[i].title[1])
        /\ (tool = "table" /\ (~ColumnGiven \/ ColumnValid)) =>
              \A i \in DOMAIN input_file : \A j \in DOMAIN input_file[i] :
                 (ColumnGiven => j = args_column[1]) =>
                    \A k \in DOMAIN input_file[i][j] :
                       IsKey(input_file[i][j][k]) =>
                          Pieces(substituted_df[i][j])[k] = Mapped(input_file[i][j][k])
        /\ tool = "line" =>
              /\ Len(out) = Len(input_file)
              /\ \A i \in DOMAIN input_file :
                    out[i] = Join(MappedAll(Split(input_file[i])), " ")

(* C5: a lookup miss changes nothing: a run whose equivalence file shares no key    *)
(* with the input writes the input back, up to the whitespace normalization of the  *)
(* tool; a FASTA record whose identifier is no key keeps its title line.            *)
NoKeyInInput ==
    IF tool = "table"
    THEN \A i \in DOMAIN input_file : \A j \in DOMAIN input_file[i] :
            \A k \in DOMAIN input_file[i][j] : ~IsKey(input_file[i][j][k])
    ELSE IF tool = "line"
    THEN \A i \in DOMAIN input_file : \A k \in DOMAIN Split(input_file[i]) :
            ~IsKey(Split(input_file[i])[k])
    ELSE \A i \in DOMAIN input_file : ~IsKey(input_file[i].title[1])
C5_MissesPassThrough ==
    (TableIsUsable /\ Finished) =>
        /\ tool = "fasta" =>
              \A i \in DOMAIN input_file :
                 ~IsKey(input_file[i].title[1]) =>
                    /\ records[i] = ParseRecord(input_file[i])
                    /\ out[2 * i - 1] = ">" \o Join(input_file[i].title, " ")
                    /\ out[2 * i] = input_file[i].seq
        /\ (tool = "table" /\ (~ColumnGiven \/ ColumnValid) /\ NoKeyInInput) =>
              /\ Len(EmittedRows) = Len(input_file)
              /\ \A i \in DOMAIN input_file :
                    EmittedRows[i] =
                        Join([j \in DOMAIN input_file[i] |-> CellText(input_file[i][j])],
                             "\t")
        /\ (tool = "line" /\ NoKeyInInput) =>
              /\ Len(out) = Len(input_file)
              /\ \A i \in DOMAIN input_file : out[i] = Join(Split(input_file[i]), " ")

(* C6: the renamed FASTA records are the input records, in order, with the payload  *)
(* unchanged; a record whose identifier is a key has the mapped value as identifier *)
(* and as description, any other record keeps both as parsed; the title line        *)
(* written is the mapped value, or the title line of the input.                     *)
RenameComplete ==
    tool = "fasta" /\ (pc = "write" \/ (pc = "exit" /\ exit_status = "0"))
ExpectedTitle(entry) ==
    IF IsKey(entry.title[1]) THEN Mapped(entry.title[1]) ELSE Join(entry.title, " ")
C6_FastaRewrite ==
    RenameComplete =>
        /\ Len(records) = Len(input_file)
        /\ \A i \in DOMAIN input_file :
              LET id == input_file[i].title[1]
              IN /\ records[i].seq = input_file[i].seq
                 /\ IF IsKey(id)
                    THEN /\ records[i].id = Mapped(id)
                         /\ records[i].description = <<Mapped(id)>>
                    ELSE /\ records[i].id = id
                         /\ records[i].description = input_file[i].title
        /\ Len(out) <= 2 * Len(input_file)
        /\ \A i \in DOMAIN input_file :
              2 * i <= Len(out) =>
                 /\ out[2 * i - 1] = ">" \o ExpectedTitle(input_file[i])
                 /\ out[2 * i] = input_file[i].seq
        /\ Finished => Len(out) = 2 * Len(input_file)

C6_Witness ==
    /\ tool = "fasta" /\ Finished
    /\ table_file = << <<"a", "b">> >>
    /\ input_file = << [title |-> <<"a", "desc">>, seq |-> "ACGT"],
                       [title |-> <<"a7", "desc">>, seq |-> "TTTT"] >>
    /\ out = << ">b", "ACGT", ">a7 desc", "TTTT" >>

(* C7: when several rows of the equivalence table have the same first column, the   *)
(* dictionary holds for that key the second column of the last such row, and that   *)
(* value is the one applied to every occurrence of the key.                         *)
DictBuilt ==
    /\ pc \notin {"start", "dict"}
    /\ Len(equivalences_table) > 0
    /\ Width(equivalences_table) >= 2
LastWithKey(key) ==
    CHOOSE i \in DOMAIN equivalences_table :
        /\ equivalences_table[i][1] = key
        /\ \A j \in DOMAIN equivalences_table :
              equivalences_table[j][1] = key => j <= i
LastValue(text) ==
    IF \E i \in DOMAIN equivalences_table : equivalences_table[i][1] = PyStr(text)
    THEN equivalences_table[LastWithKey(PyStr(text))][2][2]
    ELSE text
C8_LineRewrite ==
    (tool = "line" /\ TableIsUsable /\ pc = "exit" /\ ~broken_pipe) =>
        /\ exit_status = "0"
        /\ Len(out) = Len(input_file)
        /\ \A i \in DOMAIN input_file :
              out[i] = Join(MappedAll(Split(input_file[i])), " ")

(* C9: in the FASTA renamer the column count of the equivalence table is checked    *)
(* first: when it is not two the run ends in the malformed-table error and nothing  *)
(* is ever read or written; otherwise nothing is written before every record has    *)
(* been read and rewritten.                                                         *)
C9_ValidateThenRenameThenWrite ==
    tool = "fasta" =>
        /\ (Len(table_file[1]) # 2 /\ pc # "start") =>
              /\ pc = "exit" /\ exit_status = "ValueError"
              /\ records = <<>> /\ out = <<>>
        /\ (pc = "start") => (records = <<>> /\ out = <<>>)
        /\ out # <<>> =>
              /\ Len(table_file[1]) = 2
              /\ pc \in {"write", "exit"}
              /\ Len(records) = Len(input_file)
        /\ pc = "rename" => out = <<>>

C9_Witness ==
    /\ tool = "fasta" /\ pc = "write"
    /\ Len(input_file) = 2 /\ Len(records) = 2
    /\ Len(out) = 2 /\ lineno = 2

====
